---- MODULE Spec2Model ----
(***************************************************************************)
(* Model of the upload pipeline of thelaby-cipher (upload.js): the page    *)
(* state classifier determinePageStates and the run of main() against the  *)
(* remote site, one action per remote round trip.                          *)
(***************************************************************************)
EXTENDS Integers, Sequences, FiniteSets, TLC

\* ------------------------------------------------------------------
\* Universe
\* ------------------------------------------------------------------
\* Page names of the content tree, in the order the directory scan lists them.
NameOrder == <<"A", "B">>
Names == {NameOrder[i] : i \in 1..Len(NameOrder)}

\* meta.id of a recorded state that holds no id (undefined, falsy in JS).
NoId == 0
\* meta.hash of a recorded state that holds no hash.
NoHash == <<>>
\* readPageMeta's result when the .meta file does not exist: {}.  A recorded
\* state without is_first has the flag FALSE (undefined, falsy in JS).
EmptyMeta == [id |-> NoId, hash |-> NoHash, is_first |-> FALSE]
\* Content of an .html file that does not exist.
NoFile == "nofile"
\* A {page}.meta file that does not exist, and one that holds meta.
NoMetaFile == [exists |-> FALSE, id |-> NoId, hash |-> NoHash, is_first |-> FALSE]
MetaFileOf(meta) ==
    [exists |-> TRUE, id |-> meta.id, hash |-> meta.hash, is_first |-> meta.is_first]
\* A {page}.json file that does not exist.
NoJson == [exists |-> FALSE, answers |-> <<>>]
\* An image cache (checksum -> URL) without entries: {}.
NoImages == <<>>
\* labyrinth.meta when it does not exist, and when it holds labyMeta.
NoLabyFile == [exists |-> FALSE, id |-> NoId, hash |-> NoHash,
               images |-> NoImages, pageIds |-> <<>>]
LabyFileOf(lm) == [exists |-> TRUE, id |-> lm.id, hash |-> lm.hash,
                   images |-> lm.images, pageIds |-> lm.pageIds]

\* Largest remote id drawn as an input of the classifier.
MaxClsId == 2
\* Largest number of runs of main() in one behaviour.
MaxRuns == 3
\* Largest number of local edits by the author in one behaviour.
MaxEdits == 1
\* Largest number of failing remote round trips (or kills) in one behaviour.
MaxFaults == 2
\* Number of distinct image checksums and largest number of checksums of a
\* page drawn as inputs of computePageHash.
MaxChecksum == 2
MaxSums == 2
\* Largest number of invocations of fn a call of withRetry is followed for,
\* and the largest maxRetries passed to it.
MaxCalls == 3
\* Largest number of image files one page references.
MaxRefs == 2
\* Largest number of runs the image handling is followed for.
MaxImageRuns == 2

\* ------------------------------------------------------------------
\* Sequence helpers
\* ------------------------------------------------------------------
Range(s) == {s[i] : i \in 1..Len(s)}

Contains(s, x) == \E i \in 1..Len(s) : s[i] = x

\* Array.prototype.filter with a predicate given as the set of kept values.
FilterIn(s, keep) == SelectSeq(s, LAMBDA x : x \in keep)

\* pageIds.filter(id => id !== pageId)
FilterOut(s, x) == SelectSeq(s, LAMBDA y : y # x)

\* Number of positions of s holding x.
Count(s, x) == Cardinality({i \in 1..Len(s) : s[i] = x})

\* The names of a set, listed in directory-scan order.
NamesIn(S) == FilterIn(NameOrder, S)

\* All duplicate-free sequences over the set S.
RECURSIVE Perms(_)
Perms(S) ==
    IF S = {} THEN {<<>>}
    ELSE UNION {{<<x>> \o p : p \in Perms(S \ {x})} : x \in S}

DistinctSeqs(S) == UNION {Perms(T) : T \in SUBSET S}

\* ------------------------------------------------------------------
\* determinePageStates (upload.js:658-736)
\* ------------------------------------------------------------------
\* idToName: every id held by the meta of a name of metaNames.  A later name
\* overwrites an earlier one with the same id.
LastNameWithId(metaNames, metas, id) ==
    LET at == {i \in 1..Len(metaNames) : metas[metaNames[i]].id = id}
    IN  metaNames[CHOOSE i \in at : \A j \in at : j <= i]

\* idToName when the loop stops after the first name of metaNames.
idToNameFirstOnly(metaNames, metas) ==
    LET first == IF metaNames = <<>> THEN <<>> ELSE <<Head(metaNames)>>
        ids == {metas[first[i]].id : i \in 1..Len(first)} \ {NoId}
    IN  [id \in ids |-> Head(metaNames)]

idToName(metaNames, metas) ==
    LET ids == {metas[metaNames[i]].id : i \in 1..Len(metaNames)} \ {NoId}
    IN  [id \in ids |-> LastNameWithId(metaNames, metas, id)]

\* if (hasJson) { ... } else if (hasMeta && metaId && !inPageIds): the third
\* branch of the html/json block (upload.js:699).
IsPageIdsMissing(name, metaSet, knownIds, metas) ==
    /\ name \in metaSet
    /\ metas[name].id # NoId
    /\ metas[name].id \notin knownIds

determinePageStates(htmlNames, jsonNames, metaNames, pageIds, metas) ==
    LET htmlSet  == Range(htmlNames)
        jsonSet  == Range(jsonNames)
        metaSet  == Range(metaNames)
        knownIds == Range(pageIds)
        map      == idToName(metaNames, metas)
        both     == SelectSeq(htmlNames, LAMBDA n : n \in jsonSet)
        idsMiss  == SelectSeq(both,
                      LAMBDA n : IsPageIdsMissing(n, metaSet, knownIds, metas))
        jsonMiss == SelectSeq(htmlNames, LAMBDA n : n \notin jsonSet)
        htmlMiss == SelectSeq(jsonNames, LAMBDA n : n \notin htmlSet)
        resid    == SelectSeq(metaNames,
                      LAMBDA n : n \notin htmlSet /\ n \notin jsonSet)
    IN  [ normal |-> SelectSeq(both, LAMBDA n :
                        /\ n \in metaSet
                        /\ metas[n].id # NoId
                        /\ metas[n].id \in knownIds),
          new |-> SelectSeq(both, LAMBDA n : n \notin metaSet),
          json_missing |-> [i \in 1..Len(jsonMiss) |->
                [name |-> jsonMiss[i], hasMeta |-> jsonMiss[i] \in metaSet,
                 metaId |-> metas[jsonMiss[i]].id]],
          html_missing |-> [i \in 1..Len(htmlMiss) |->
                [name |-> htmlMiss[i], hasMeta |-> htmlMiss[i] \in metaSet,
                 metaId |-> metas[htmlMiss[i]].id]],
          orphan |-> SelectSeq(pageIds, LAMBDA id : id \notin DOMAIN map),
          pageIds_missing |-> [i \in 1..Len(idsMiss) |->
                [name |-> idsMiss[i], id |-> metas[idsMiss[i]].id]],
          residual_meta |-> [i \in 1..Len(resid) |->
                [name |-> resid[i], id |-> metas[resid[i]].id,
                 inPageIds |-> metas[resid[i]].id \in knownIds]] ]

\* The states object before anything is pushed.
NoStates ==
    [ normal |-> <<>>, new |-> <<>>, json_missing |-> <<>>,
      html_missing |-> <<>>, orphan |-> <<>>, pageIds_missing |-> <<>>,
      residual_meta |-> <<>> ]


\* ------------------------------------------------------------------
\* Inputs of a run: the author's files
\* ------------------------------------------------------------------
\* An answer without a next page (ans.next undefined).
NoNext == ""
\* A page name that no file of the content tree has.
Ghost == "Z"

\* Contents an .html file can have.
HtmlVals == {"h1", "h2"}
\* The content of an .html file of zero bytes: the empty string, falsy in JS.
EmptyHtml == ""

\* The answers lists a page's .json can hold, each answer given by its next.
AnswerLists == {<<>>, <<"B">>, <<Ghost>>, <<NoNext, "B">>}
JsonVals == [exists : {TRUE}, answers : AnswerLists]

\* String.prototype.toLowerCase on the words that occur with capitals.
toLowerCase(w) ==
    CASE w = "Timeout" -> "timeout"
      [] w = "Navigation failed" -> "navigation failed"
      [] w = "PNG" -> "png"
      [] OTHER -> w

\* ------------------------------------------------------------------
\* labyrinth.json and validateConfig (labyrinth.js:45-204)
\* ------------------------------------------------------------------
\* VALIDATION
titleMaxLength == 100
descriptionMaxLength == 500
tagsMaxLength == 5

\* TAG_MAP: the English symbols and the Korean names (romanised here) of the
\* tags; the tag id is the position in either list.
TagSymbols ==
    <<"problem", "story", "expert", "no-search", "search", "specific-person",
      "event", "parody", "movie", "tv", "comic", "singer", "actor", "nonsense",
      "cute", "game", "long", "short", "horror", "escape", "puzzle",
      "mobile-ok", "no-mobile", "streaming-ok">>
TagKoreanNames ==
    <<"munje", "seutori", "jeonmunjisik", "geomsaekbulpiryo", "geomsaekpiryo",
      "teukjeonginmul", "ibenteu", "paereodi", "yeonghwa", "TVpeurogeuraem",
      "manhwa", "gasu", "baeu", "neonsenseu", "gwiyeomppojjak", "geim",
      "jangpyeonmigung", "danpyeonmigung", "gongpo", "bangtalchul", "peojeul",
      "mobailganeung", "mobailbulganeung", "bangsongsongchulheoyong">>
TAG_MAP ==
    [n \in {TagSymbols[i] : i \in 1..Len(TagSymbols)}
            \cup {TagKoreanNames[i] : i \in 1..Len(TagKoreanNames)} |->
        CHOOSE i \in 1..Len(TagSymbols) : TagSymbols[i] = n \/ TagKoreanNames[i] = n]

\* A tag of the config: a string (a name) or a number (an id).
StringTag(name) == [type |-> "string", name |-> name, id |-> 0]
NumberTag(id) == [type |-> "number", name |-> "", id |-> id]

\* A text of n characters, and String.prototype.trim.
Chars(n) == [i \in 1..n |-> "a"]

RECURSIVE trimStart(_)
trimStart(t) == IF t # <<>> /\ Head(t) = " " THEN trimStart(Tail(t)) ELSE t

RECURSIVE trimEnd(_)
trimEnd(t) ==
    IF t # <<>> /\ t[Len(t)] = " " THEN trimEnd(SubSeq(t, 1, Len(t) - 1)) ELSE t

trim(t) == trimEnd(trimStart(t))

allowedExts == {"bmp", "jpg", "jpeg", "gif", "png"}
validVisibility == {"hidden", "count", "list", "full"}

\* normalized.tags.filter(tag => typeof tag === 'string' && !TAG_MAP[tag])
invalidTags(tags) ==
    SelectSeq(tags, LAMBDA tag :
        tag.type = "string" /\ tag.name \notin DOMAIN TAG_MAP)

\* validateConfig: the errors it pushes.  A text is the sequence of its
\* characters, an image name the sequence of its parts between dots.
validateConfig(c) ==
    (IF c.title = <<>> \/ trim(c.title) = <<>> THEN {"title required"}
     ELSE IF Len(c.title) > titleMaxLength THEN {"title length"} ELSE {})
    \cup (IF Len(c.description) > descriptionMaxLength
          THEN {"description length"} ELSE {})
    \cup (IF Len(c.tags) > tagsMaxLength THEN {"tags count"} ELSE {})
    \cup (IF Len(invalidTags(c.tags)) > 0 THEN {"unknown tag"} ELSE {})
    \cup (IF c.image # <<>> /\ toLowerCase(c.image[Len(c.image)]) \notin allowedExts
          THEN {"image format"} ELSE {})
    \cup (IF c.clear_visibility # "" /\ c.clear_visibility \notin validVisibility
          THEN {"clear_visibility"} ELSE {})

\* config.first_page || config.start_page || null ("" for null)
firstPage(c) == IF c.first_page # "" THEN c.first_page ELSE c.start_page

\* The labyrinth.json of a content tree that was never uploaded.
BaseConfig ==
    [title |-> Chars(1), description |-> <<>>, tags |-> <<StringTag("puzzle")>>,
     image |-> <<"cover", "PNG">>, clear_visibility |-> "full",
     first_page |-> "", start_page |-> ""]

\* The versions of labyrinth.json: BaseConfig with one field rewritten.
ConfigVals ==
    {BaseConfig}
    \cup {[BaseConfig EXCEPT !.title = t] :
            t \in {<<>>, <<" ">>, Chars(titleMaxLength), Chars(titleMaxLength + 1)}}
    \cup {[BaseConfig EXCEPT !.description = Chars(descriptionMaxLength + 1)]}
    \cup {[BaseConfig EXCEPT !.tags = t] :
            t \in {[i \in 1..(tagsMaxLength + 1) |-> StringTag(TagSymbols[i])],
                   <<StringTag("riddle")>>, <<NumberTag(99)>>}}
    \cup {[BaseConfig EXCEPT !.image = <<"cover", "webp">>]}
    \cup {[BaseConfig EXCEPT !.clear_visibility = "all"]}
    \cup {[BaseConfig EXCEPT !.first_page = n] : n \in {"B", Ghost}}

\* ------------------------------------------------------------------
\* State
\* ------------------------------------------------------------------
VARIABLES
    html,       \* [Names -> HtmlVals \cup {NoFile}]: the {page}.html files
    json,       \* [Names -> JsonVals \cup {NoJson}]: the {page}.json files
    config,     \* labyrinth.json
    labyFile,   \* labyrinth.meta: [exists, id, hash, images, pageIds]
    metaFile,   \* [Names -> [exists, id, hash]]: the {page}.meta files
    remote,     \* the site: [page id -> [data, pred]]
    remoteLaby, \* the site: [labyrinth id -> config hash]
    nextId,     \* the next id the site assigns
    pc,         \* position of main(): idle, login, laby, plan, delete, ...
    loggedIn,   \* a browser session is open
    labyMeta,   \* main's labyMeta
    pageIds,    \* main's pageIds
    pagesMeta,  \* main's pages[name].meta
    plan,       \* main's states, newPages, updatedPages, allPagesToDelete, metasToDelete
    idx,        \* loop index i of the current phase (1-based)
    counts,     \* main's counts
    exit,       \* how the last run ended: [code, cause]
    log,        \* remote operations issued by the current run, in order,
                \* one entry per operation (its retries are not listed)
    failed,     \* entities whose remote operation failed in the current run
    prev,       \* what the current run found: [ok, edited, failed, laby, meta, site]
    edited,     \* the author edited files since the last run started
    runs, edits, faults,
    cIn, cOut,  \* an input of determinePageStates and its result
    hIn, hOut,  \* two inputs of computePageHash and their fingerprints
    rIn, rSt,   \* an input of withRetry and the state of its call
    iIn, iSt    \* the image references of the pages and the state of the
                \* image handling of a run

fileVars   == <<html, json, config, labyFile, metaFile>>
siteVars   == <<remote, remoteLaby, nextId>>
memVars    == <<labyMeta, pageIds, pagesMeta, plan, idx, counts>>
ghostVars  == <<log, failed, prev, edited, runs, edits, faults>>
clsVars    == <<cIn, cOut>>
hashVars   == <<hIn, hOut>>
\* The variables of main and the variables of the functions followed alone.
mainVars == <<fileVars, siteVars, pc, loggedIn, memVars, exit, ghostVars>>
retryVars  == <<rIn, rSt>>
imageVars  == <<iIn, iSt>>
pureVars == <<clsVars, hashVars, retryVars, imageVars>>
vars == <<mainVars, pureVars>>

NoPlan == [states |-> NoStates, newPages |-> <<>>, updatedPages |-> <<>>,
           allPagesToDelete |-> <<>>, metasToDelete |-> <<>>, errors |-> {}]

NoCounts == [deleted |-> 0, created |-> 0, updated |-> 0, connected |-> 0,
             failures |-> [image |-> 0, page |-> 0, connect |-> 0]]

NoLabyMeta == [id |-> NoId, hash |-> NoHash, images |-> NoImages, pageIds |-> <<>>]

\* No page references an image; the image handling of a run before its
\* first page.  uploads lists the uploadImage calls of the run, content the
\* html submitted for each page, recorded the pages whose meta file the run
\* wrote with the hash of the page.
NoImageIn == [refs |-> [n \in Names |-> <<>>], bytes |-> <<>>]
NoImageSt == [pc |-> "page", i |-> 1, j |-> 1, imageCache |-> NoImages,
              updatedCache |-> NoImages, pathMap |-> <<>>, saved |-> NoImages,
              uploads |-> <<>>, content |-> [n \in Names |-> <<>>],
              submitted |-> {}, recorded |-> {}, nextUrl |-> 1, run |-> 1]

\* An error that was never thrown (lastError before the first catch).
NoError == [message |-> <<>>, at |-> 0]
NoRetryIn == [outcomes |-> <<>>, maxRetries |-> 0]
NoRetrySt == [pc |-> "call", attempt |-> 1, calls |-> 0, delays |-> <<>>,
              lastError |-> NoError, thrown |-> NoError, result |-> 0]

NoHashIn == [html |-> "h1", jsonA |-> <<>>, jsonB |-> <<>>,
             sumsA |-> <<>>, sumsB |-> <<>>]
NoHashOut == [done |-> FALSE, a |-> NoHash, b |-> NoHash]

NoClsIn == [htmlNames |-> <<>>, jsonNames |-> <<>>, metaNames |-> <<>>,
            pageIds |-> <<>>, metas |-> [n \in Names |-> EmptyMeta]]
\* Nothing is classified yet; i is the index of the delete loop over the
\* classified input and calls lists the ids it passed to deletePage.
NoClsOut == [done |-> FALSE, states |-> NoStates, i |-> 1, calls |-> <<>>]

\* ------------------------------------------------------------------
\* Fingerprints and file access
\* ------------------------------------------------------------------
\* A parsed JSON object is the sequence of its <<key, value>> pairs in
\* insertion order.  JSON.stringify writes the pairs in that order.
JSONstringify(obj) ==
    [i \in 1..(2 * Len(obj)) |->
        IF i % 2 = 1 THEN obj[(i + 1) \div 2][1] ELSE obj[i \div 2][2]]

\* s without its element at position k.
RemoveAt(s, k) == [i \in 1..(Len(s) - 1) |-> IF i < k THEN s[i] ELSE s[i + 1]]

\* Array.prototype.sort on checksums: ascending, duplicates kept.
RECURSIVE sort(_)
sort(s) ==
    IF s = <<>> THEN <<>>
    ELSE LET k == CHOOSE i \in 1..Len(s) : \A j \in 1..Len(s) : s[i] <= s[j]
         IN  <<s[k]>> \o sort(RemoveAt(s, k))

\* computePageHash when the checksums are hashed in the order given.
computePageHashUnsorted(h, jsonData, imageChecksums) ==
    <<"page", h, JSONstringify(jsonData), imageChecksums>>

\* computePageHash: the digest of JSON.stringify({html, json, images:
\* imageChecksums.sort()}); two inputs have one digest iff their
\* serialisations are equal.
computePageHash(h, jsonData, imageChecksums) ==
    <<"page", h, JSONstringify(jsonData), sort(imageChecksums)>>

\* The object main parses from a {page}.json file of the content tree.
PageJson(j) == <<<<"answers", j.answers>>>>

\* computeLabyrinthHash
computeLabyrinthHash(c) == <<"laby", c>>

\* readPageMeta: the file's content, or {} when there is no file.
readPageMeta(n) ==
    IF metaFile[n].exists
    THEN [id |-> metaFile[n].id, hash |-> metaFile[n].hash,
          is_first |-> metaFile[n].is_first]
    ELSE EmptyMeta

findPageHtmlFiles == NamesIn({n \in Names : html[n] # NoFile})
findPageJsonFiles == NamesIn({n \in Names : json[n].exists})
findPageMetaFiles(mf) == NamesIn({n \in Names : mf[n].exists})

\* The names main loads into pages: both files exist and what was read from
\* them is truthy (if (html && json)).
Loaded == {n \in Names : html[n] \notin {NoFile, EmptyHtml} /\ json[n].exists}

\* pages[name].hash
PageHash(n) == computePageHash(html[n], PageJson(json[n]), <<>>)


\* ------------------------------------------------------------------
\* validateAllPages (upload.js:429-506): the answers whose next names no
\* loaded page, as <<page, answer position>>
\* ------------------------------------------------------------------
validatePageJson(n, allPageNames) ==
    {<<n, i>> : i \in {k \in 1..Len(json[n].answers) :
                          /\ json[n].answers[k] # NoNext
                          /\ json[n].answers[k] \notin allPageNames}}

validateAllPages(pages) == UNION {validatePageJson(n, pages) : n \in pages}

\* ------------------------------------------------------------------
\* The plan of main (upload.js:1005-1064)
\* ------------------------------------------------------------------
\* The ids of the items of a states list that satisfy keep, in list order.
PickIds(items, keep(_), idOf(_)) ==
    LET kept == SelectSeq(items, keep)
    IN  [i \in 1..Len(kept) |-> idOf(kept[i])]

\* pagesToDelete: orphans, residual metas with a listed id, then the listed
\* ids of json_missing and html_missing names that have a meta file.
pagesToDelete(states, ids) ==
    states.orphan
    \o PickIds(states.residual_meta,
               LAMBDA it : it.id # NoId /\ it.inPageIds, LAMBDA it : it.id)
    \o PickIds(states.json_missing,
               LAMBDA it : it.hasMeta /\ it.metaId # NoId /\ Contains(ids, it.metaId),
               LAMBDA it : it.metaId)
    \o PickIds(states.html_missing,
               LAMBDA it : it.hasMeta /\ it.metaId # NoId /\ Contains(ids, it.metaId),
               LAMBDA it : it.metaId)

pagesToDeleteBeforeRecreate(states) ==
    PickIds(states.pageIds_missing, LAMBDA it : TRUE, LAMBDA it : it.id)

metasToDelete(states) ==
    PickIds(states.json_missing, LAMBDA it : it.hasMeta, LAMBDA it : it.name)
    \o PickIds(states.html_missing, LAMBDA it : it.hasMeta, LAMBDA it : it.name)
    \o PickIds(states.residual_meta, LAMBDA it : TRUE, LAMBDA it : it.name)

\* newPages when the names without a json file are created as well.
newPagesWithJsonMissing(states) ==
    states.new
    \o PickIds(states.pageIds_missing, LAMBDA it : TRUE, LAMBDA it : it.name)
    \o PickIds(states.json_missing, LAMBDA it : TRUE, LAMBDA it : it.name)

newPages(states) ==
    states.new
    \o PickIds(states.pageIds_missing, LAMBDA it : TRUE, LAMBDA it : it.name)

\* updatedPages when every normal page is taken as changed.
updatedPagesAlways(states, metas) == states.normal

\* Normal pages whose recorded hash differs from the computed one.
updatedPages(states, metas) ==
    SelectSeq(states.normal, LAMBDA n : metas[n].hash # PageHash(n))

allPagesToDelete(states, ids) ==
    pagesToDelete(states, ids) \o pagesToDeleteBeforeRecreate(states)


\* ------------------------------------------------------------------
\* The connections of main (upload.js:1217-1223, 1348-1382)
\* ------------------------------------------------------------------
\* pageIdMap: the loaded pages whose in-memory meta holds an id.
pageIdMap(pm) == [n \in {m \in Loaded : pm[m].id # NoId} |-> pm[n].id]

\* The ascending sequence of a set of integers (the key order of an object
\* whose keys are integer strings).
RECURSIVE SortedSeq(_)
SortedSeq(S) ==
    IF S = {} THEN <<>>
    ELSE LET m == CHOOSE x \in S : \A y \in S : x <= y
         IN  <<m>> \o SortedSeq(S \ {m})

\* Every <<page, answer position>> in the order main scans them.
RECURSIVE AnswerSlots(_)
AnswerSlots(names) ==
    IF names = <<>> THEN <<>>
    ELSE [i \in 1..Len(json[Head(names)].answers) |-> <<Head(names), i>>]
         \o AnswerSlots(Tail(names))

\* The filter of upload.js:1364-1367.
EdgeWanted(isTargetNew, isSourceNewOrUpdated) ==
    isTargetNew \/ isSourceNewOrUpdated

\* The answers main turns into connections.
EdgeSlots(pm, np, up) ==
    LET map == pageIdMap(pm)
        newPageIds == {map[n] : n \in Range(np) \cap DOMAIN map}
    IN  SelectSeq(AnswerSlots(NamesIn(Loaded)), LAMBDA sl :
            /\ pm[sl[1]].id # NoId
            /\ json[sl[1]].answers[sl[2]] # NoNext
            /\ json[sl[1]].answers[sl[2]] \in DOMAIN map
            /\ EdgeWanted(map[json[sl[1]].answers[sl[2]]] \in newPageIds,
                          sl[1] \in Range(np) \/ sl[1] \in Range(up)))

\* connections[targetPageId] when answerIndex is the index idx of forEach.
connectionsZeroBased(pm, np, up, target) ==
    LET map == pageIdMap(pm)
        mine == SelectSeq(EdgeSlots(pm, np, up),
                    LAMBDA sl : map[json[sl[1]].answers[sl[2]]] = target)
    IN  [i \in 1..Len(mine) |->
            [fromPageId |-> pm[mine[i][1]].id, answerIndex |-> mine[i][2] - 1,
             fromName |-> mine[i][1]]]

\* connections[targetPageId]: the sources pushed for one target, in order;
\* answerIndex is idx + 1, the position of the answer counted from 1.
connections(pm, np, up, target) ==
    LET map == pageIdMap(pm)
        mine == SelectSeq(EdgeSlots(pm, np, up),
                    LAMBDA sl : map[json[sl[1]].answers[sl[2]]] = target)
    IN  [i \in 1..Len(mine) |->
            [fromPageId |-> pm[mine[i][1]].id, answerIndex |-> mine[i][2],
             fromName |-> mine[i][1]]]

\* Object.keys(connections)
targetPages(pm, np, up) ==
    LET map == pageIdMap(pm)
        slots == EdgeSlots(pm, np, up)
    IN  SortedSeq({map[json[slots[i][1]].answers[slots[i][2]]] : i \in 1..Len(slots)})

\* ------------------------------------------------------------------
\* The site
\* ------------------------------------------------------------------
\* A page the site stores: the submitted content and, on the page itself,
\* the checked predecessor boxes <<parent page id, answer position>>.
SitePage(data, pred, answers) == [data |-> data, pred |-> pred, answers |-> answers]

\* The answer rows of the edit form of a page when main submits it: the
\* rows the page had are cleared and the local answers are added only when
\* there are local answers (if (hasAnswers) { clearAnswers; addAnswer ... }).
answerRows(stored, answers) == IF Len(answers) > 0 THEN answers ELSE stored

\* What the site stores for a saved form with the select answerExistYn at N
\* (hasAnswers false) is not decided by the program: the rows the form
\* holds, or no rows.
StoredRows(rows, answers) == IF Len(answers) > 0 THEN {rows} ELSE {rows, <<>>}

SitePut(site, id, pg) == [i \in DOMAIN site \cup {id} |-> IF i = id THEN pg ELSE site[i]]

\* The site without page id; no other page keeps a box for its answers.
SiteRemove(site, id) ==
    [i \in DOMAIN site \ {id} |->
        [site[i] EXCEPT !.pred = {pr \in @ : pr[1] # id}]]


\* ------------------------------------------------------------------
\* Bookkeeping shared by the actions
\* ------------------------------------------------------------------
\* One remote operation of the log; sources lists the setParentConnection
\* calls of a link operation.
Op(op, name, id) == [op |-> op, name |-> name, id |-> id, sources |-> <<>>]
LinkOp(name, id, sources) == [op |-> "link", name |-> name, id |-> id, sources |-> sources]

\* exit: code -1 while no run has ended, 0 and 1 as process exit codes,
\* 137 for a killed process.
NoExit == [code |-> -1, cause |-> "none", errors |-> {}]

CanFail == faults < MaxFaults

\* The process ends: main's variables are gone.
EndRun(code, cause, errors) ==
    /\ pc' = "idle"
    /\ exit' = [code |-> code, cause |-> cause, errors |-> errors]
    /\ labyMeta' = NoLabyMeta
    /\ pageIds' = <<>>
    /\ pagesMeta' = [n \in Names |-> EmptyMeta]
    /\ plan' = NoPlan
    /\ idx' = 1
    /\ counts' = NoCounts

\* ------------------------------------------------------------------
\* Initial state: a content tree that was never uploaded
\* ------------------------------------------------------------------
InitMain ==
    /\ html = [n \in Names |-> "h1"]
    /\ config = BaseConfig
    /\ labyFile = NoLabyFile
    /\ metaFile = [n \in Names |-> NoMetaFile]
    /\ remote = <<>>
    /\ remoteLaby = <<>>
    /\ nextId = 1
    /\ pc = "idle"
    /\ loggedIn = FALSE
    /\ labyMeta = NoLabyMeta
    /\ pageIds = <<>>
    /\ pagesMeta = [n \in Names |-> EmptyMeta]
    /\ plan = NoPlan
    /\ idx = 1
    /\ counts = NoCounts
    /\ exit = NoExit
    /\ log = <<>>
    /\ failed = {}
    /\ prev = [ok |-> FALSE, edited |-> FALSE, failed |-> {},
               laby |-> NoLabyFile, meta |-> [n \in Names |-> NoMetaFile],
               site |-> <<>>]
    /\ edited = FALSE
    /\ runs = 0
    /\ edits = 0
    /\ faults = 0

\* No function is followed alone.
ClsIdle == cIn = NoClsIn /\ cOut = NoClsOut
HashIdle == hIn = NoHashIn /\ hOut = NoHashOut
RetryIdle == rIn = NoRetryIn /\ rSt = NoRetrySt
ImageIdle == iIn = NoImageIn /\ iSt = NoImageSt

Init ==
    /\ InitMain
    /\ json \in [Names -> JsonVals]
    /\ ClsIdle
    /\ HashIdle
    /\ RetryIdle
    /\ ImageIdle

\* ------------------------------------------------------------------
\* main(): start, login (upload.js:738-826)
\* ------------------------------------------------------------------
\* The process starts: labyrinth.json is read and validated; a config
\* without title or with validation errors ends the process with code 1
\* before the try block of main is entered.
StartRun ==
    /\ pc = "idle"
    /\ runs < MaxRuns
    /\ runs' = runs + 1
    /\ loggedIn' = FALSE
    /\ log' = <<>>
    /\ failed' = {}
    /\ edited' = FALSE
    /\ prev' = [ok |-> exit.code = 0 /\ failed = {}, edited |-> edited,
                failed |-> failed, laby |-> labyFile, meta |-> metaFile,
                site |-> remote]
    /\ IF config.title = <<>> \/ validateConfig(config) # {}
       THEN EndRun(1, "config", {})
       ELSE /\ pc' = "login"
            /\ exit' = NoExit
            /\ UNCHANGED memVars
    /\ UNCHANGED <<fileVars, siteVars, edits, faults, pureVars>>

Login ==
    /\ pc = "login"
    /\ \/ /\ pc' = "laby"
          /\ loggedIn' = TRUE
          /\ UNCHANGED <<memVars, exit, faults>>
       \/ /\ CanFail
          /\ faults' = faults + 1
          /\ EndRun(1, "login", {})
          /\ UNCHANGED loggedIn
    /\ UNCHANGED <<fileVars, siteVars, log, failed, prev, edited, runs, edits, pureVars>>

\* ------------------------------------------------------------------
\* main(): labyrinth step (upload.js:828-883)
\* ------------------------------------------------------------------
\* The labyrinth call main makes for the labyMeta it read.
labyrinthOpCreateOnly(lm, currentHash) ==
    IF lm.id = NoId THEN "createLabyrinth" ELSE "none"

labyrinthOp(lm, currentHash) ==
    IF lm.id = NoId THEN "createLabyrinth"
    ELSE IF lm.hash # currentHash THEN "updateLabyrinth"
    ELSE "none"

\* labyMeta after the call returned: id and hash are set, images and pageIds
\* are kept when labyMeta has them (labyMeta.images || {}, labyMeta.pageIds || []).
syncedMeta(lm, lid, currentHash) ==
    [id |-> lid, hash |-> currentHash, images |-> lm.images, pageIds |-> lm.pageIds]

\* labyrinth.meta when the write precedes the call.
labyFileWrittenFirst(file, lm) == LabyFileOf(lm)

\* labyrinth.meta when the call threw: the write that follows the await is
\* not reached.
labyFileOnThrow(file, lm) == file

\* The page meta files when those found with a new labyrinth are kept.
metasKeptOnNewLabyrinth(isNewLabyrinth, files) == files

\* The page meta files after the check of labyrinth.meta: with a new
\* labyrinth every {page}.meta that findPageMetaFiles lists is deleted.
metasAfterLabyCheck(isNewLabyrinth, files) ==
    IF isNewLabyrinth THEN [n \in Names |-> NoMetaFile] ELSE files

LabySync ==
    /\ pc = "laby"
    /\ LET isNewLabyrinth == ~labyFile.exists
           lm0 == [id |-> labyFile.id, hash |-> labyFile.hash,
                   images |-> labyFile.images, pageIds |-> labyFile.pageIds]
           mf == metasAfterLabyCheck(isNewLabyrinth, metaFile)
           currentHash == computeLabyrinthHash(config)
           op == labyrinthOp(lm0, currentHash)
           lid == IF lm0.id = NoId THEN nextId ELSE lm0.id
           lm1 == syncedMeta(lm0, lid, currentHash)
       IN  /\ metaFile' = mf
           /\ \/ /\ op = "none"
                 /\ labyMeta' = lm0
                 /\ pageIds' = lm0.pageIds
                 /\ pc' = "plan"
                 /\ UNCHANGED <<labyFile, siteVars, log, faults, exit,
                                pagesMeta, plan, idx, counts>>
              \/ /\ op # "none"
                 /\ labyMeta' = lm1
                 /\ labyFile' = LabyFileOf(lm1)
                 /\ pageIds' = lm1.pageIds
                 /\ remoteLaby' = SitePut(remoteLaby, lid, currentHash)
                 /\ nextId' = IF op = "createLabyrinth" THEN nextId + 1 ELSE nextId
                 /\ log' = Append(log, Op(op, "", lid))
                 /\ pc' = "plan"
                 /\ UNCHANGED <<remote, faults, exit, pagesMeta, plan, idx, counts>>
              \/ /\ op # "none"
                 /\ CanFail
                 /\ faults' = faults + 1
                 /\ log' = Append(log, Op(op, "", lm0.id))
                 /\ labyFile' = labyFileOnThrow(labyFile, lm1)
                 /\ EndRun(1, "labyrinth", {})
                 /\ UNCHANGED siteVars
    /\ UNCHANGED <<html, json, config, loggedIn, failed, prev, edited, runs, edits, pureVars>>

\* ------------------------------------------------------------------
\* main(): scan, classify, validate, plan (upload.js:885-1059)
\* ------------------------------------------------------------------
\* The first_page check when it is left out.
firstPageUnchecked(first, pages) == TRUE

\* const isFirst = (firstPage === name)
isFirst(first, name) == first = name

\* !(firstPage && !Object.keys(pages).includes(firstPage))
firstPageResolves(first, pages) == first = "" \/ first \in pages

Plan ==
    /\ pc = "plan"
    /\ LET metas == [n \in Names |-> readPageMeta(n)]
           states == determinePageStates(findPageHtmlFiles, findPageJsonFiles,
                         findPageMetaFiles(metaFile), pageIds, metas)
           errors == validateAllPages(Loaded)
           missing == {states.pageIds_missing[i].name :
                          i \in 1..Len(states.pageIds_missing)}
       IN  IF errors # {}
           THEN /\ EndRun(1, "validation", errors)
           ELSE IF ~firstPageResolves(firstPage(config), Loaded)
           THEN /\ EndRun(1, "first_page", {})
           ELSE IF (Range(states.normal) \cup missing) \ Loaded # {}
           THEN \* pages[name].meta of a name that was not loaded: TypeError
                /\ EndRun(1, "TypeError", {})
           ELSE /\ plan' = [states |-> states,
                            newPages |-> newPages(states),
                            updatedPages |-> updatedPages(states, metas),
                            allPagesToDelete |-> allPagesToDelete(states, pageIds),
                            metasToDelete |-> metasToDelete(states),
                            errors |-> {}]
                /\ pagesMeta' = [n \in Names |->
                                   IF n \in Loaded /\ n \notin missing
                                   THEN metas[n] ELSE EmptyMeta]
                /\ pc' = "delete"
                /\ idx' = 1
                /\ UNCHANGED <<labyMeta, pageIds, counts, exit>>
    /\ UNCHANGED <<fileVars, siteVars, loggedIn, ghostVars, pureVars>>


\* ------------------------------------------------------------------
\* main(): delete phase (upload.js:1061-1097)
\* ------------------------------------------------------------------
\* afterDelete when the id is filtered out only after a successful delete.
afterDeleteOnSuccess(ids, pageId, success) ==
    IF success THEN FilterOut(ids, pageId) ELSE ids

\* pageIds after deletePage returned success for pageId: the id is filtered
\* out in both branches (upload.js:1072-1079).
afterDelete(ids, pageId, success) == FilterOut(ids, pageId)

\* One pass of the delete loop: one deletePage round trip.
DeleteOne ==
    /\ pc = "delete"
    /\ idx <= Len(plan.allPagesToDelete)
    /\ LET pageId == plan.allPagesToDelete[idx]
           success == pageId \in DOMAIN remote
       IN  /\ log' = Append(log, Op("deletePage", "", pageId))
           /\ \/ /\ remote' = IF success THEN SiteRemove(remote, pageId) ELSE remote
                 /\ pageIds' = afterDelete(pageIds, pageId, success)
                 /\ counts' = IF success
                              THEN [counts EXCEPT !.deleted = @ + 1] ELSE counts
                 /\ idx' = idx + 1
                 /\ UNCHANGED <<pc, exit, labyMeta, pagesMeta, plan, faults, failed>>
              \/ /\ CanFail
                 /\ faults' = faults + 1
                 /\ failed' = failed \cup {<<"delete", ToString(pageId)>>}
                 /\ EndRun(1, "delete", {})
                 /\ UNCHANGED remote
    /\ UNCHANGED <<fileVars, remoteLaby, nextId, loggedIn, prev, edited,
                   runs, edits, pureVars>>

\* After the loop: labyrinth.meta is rewritten when anything was deleted, and
\* the meta files of metasToDelete are removed.
DeleteDone ==
    /\ pc = "delete"
    /\ idx > Len(plan.allPagesToDelete)
    /\ LET wrote == Len(plan.allPagesToDelete) > 0
           lm == IF wrote THEN [labyMeta EXCEPT !.pageIds = pageIds] ELSE labyMeta
       IN  /\ labyMeta' = lm
           /\ labyFile' = IF wrote THEN LabyFileOf(lm) ELSE labyFile
    /\ metaFile' = [n \in Names |->
                      IF n \in Range(plan.metasToDelete) THEN NoMetaFile ELSE metaFile[n]]
    /\ pc' = "create"
    /\ idx' = 1
    /\ UNCHANGED <<html, json, config, siteVars, loggedIn, pageIds, pagesMeta,
                   plan, counts, exit, ghostVars, pureVars>>

\* ------------------------------------------------------------------
\* main(): create phase (upload.js:1099-1215)
\* ------------------------------------------------------------------
\* One pass of the create loop: the form is filled and submitted.
CreateOne ==
    /\ pc = "create"
    /\ idx <= Len(plan.newPages)
    /\ LET name == plan.newPages[idx]
           pageId == nextId
           meta == [pagesMeta[name] EXCEPT !.id = pageId, !.hash = PageHash(name),
                       !.is_first = isFirst(firstPage(config), name)]
           call == Op("createPage", name, NoId)
           made == SitePut(remote, pageId,
                           SitePage(PageHash(name), {}, json[name].answers))
       IN  \/ \* pages[name].json of a name that was not loaded: TypeError
              /\ name \notin Loaded
              /\ EndRun(1, "TypeError", {})
              /\ UNCHANGED <<remote, nextId, metaFile, log, faults, failed>>
           \/ \* withRetry(submitPageForm) returns the new id
              /\ name \in Loaded
              /\ log' = Append(log, call)
              /\ UNCHANGED faults
              /\ remote' = made
              /\ nextId' = nextId + 1
              /\ pagesMeta' = [pagesMeta EXCEPT ![name] = meta]
              /\ metaFile' = [metaFile EXCEPT ![name] = MetaFileOf(meta)]
              /\ pageIds' = IF Contains(pageIds, pageId)
                            THEN pageIds ELSE Append(pageIds, pageId)
              /\ counts' = [counts EXCEPT !.created = @ + 1]
              /\ idx' = idx + 1
              /\ UNCHANGED <<pc, exit, labyMeta, plan, failed>>
           \/ \* submitPageForm returns null: no id could be determined; the
              \* site may or may not have stored the page
              /\ name \in Loaded
              /\ CanFail
              /\ faults' = faults + 1
              /\ log' = Append(log, call)
              /\ \/ UNCHANGED <<remote, nextId>>
                 \/ remote' = made /\ nextId' = nextId + 1
              /\ counts' = [counts EXCEPT !.failures.page = @ + 1]
              /\ failed' = failed \cup {<<"create", name>>}
              /\ idx' = idx + 1
              /\ UNCHANGED <<pc, exit, labyMeta, plan, pagesMeta, metaFile, pageIds>>
           \/ \* a round trip of the pass throws (retries exhausted)
              /\ name \in Loaded
              /\ CanFail
              /\ faults' = faults + 1
              /\ log' = Append(log, call)
              /\ failed' = failed \cup {<<"create", name>>}
              /\ EndRun(1, "create", {})
              /\ UNCHANGED <<remote, nextId, metaFile>>
    /\ UNCHANGED <<html, json, config, labyFile, remoteLaby, loggedIn, prev,
                   edited, runs, edits, pureVars>>

\* After the loop: labyrinth.meta is rewritten when the loop ran.
CreateDone ==
    /\ pc = "create"
    /\ idx > Len(plan.newPages)
    /\ LET wrote == Len(plan.newPages) > 0
           lm == IF wrote THEN [labyMeta EXCEPT !.pageIds = pageIds] ELSE labyMeta
       IN  /\ labyMeta' = lm
           /\ labyFile' = IF wrote THEN LabyFileOf(lm) ELSE labyFile
    /\ pc' = "update"
    /\ idx' = 1
    /\ UNCHANGED <<html, json, config, metaFile, siteVars, loggedIn, pageIds,
                   pagesMeta, plan, counts, exit, ghostVars, pureVars>>


\* ------------------------------------------------------------------
\* main(): update phase (upload.js:1225-1341)
\* ------------------------------------------------------------------
\* One pass of the update loop.  The result of submitPageForm is not looked
\* at: the meta is written whether or not the form was saved.
UpdateOne ==
    /\ pc = "update"
    /\ idx <= Len(plan.updatedPages)
    /\ LET name == plan.updatedPages[idx]
           pageId == pagesMeta[name].id
           meta == [pagesMeta[name] EXCEPT !.hash = PageHash(name),
                       !.is_first = isFirst(firstPage(config), name)]
           call == Op("updatePage", name, pageId)
           saved(rows) == IF pageId \in DOMAIN remote
                          THEN [remote EXCEPT ![pageId].data = PageHash(name),
                                              ![pageId].answers = rows]
                          ELSE remote
           rows == IF pageId \in DOMAIN remote
                   THEN answerRows(remote[pageId].answers, json[name].answers)
                   ELSE json[name].answers
       IN  /\ log' = Append(log, call)
           /\ \/ /\ \/ /\ \E kept \in StoredRows(rows, json[name].answers) :
                             remote' = saved(kept)
                       /\ UNCHANGED <<faults, failed>>
                    \/ \* submitPageForm returns null: no save button
                       /\ CanFail
                       /\ faults' = faults + 1
                       /\ failed' = failed \cup {<<"update", name>>}
                       /\ UNCHANGED remote
                 /\ pagesMeta' = [pagesMeta EXCEPT ![name] = meta]
                 /\ metaFile' = [metaFile EXCEPT ![name] = MetaFileOf(meta)]
                 /\ counts' = [counts EXCEPT !.updated = @ + 1]
                 /\ idx' = idx + 1
                 /\ UNCHANGED <<pc, exit, labyMeta, pageIds, plan>>
              \/ \* a round trip of the pass throws (retries exhausted)
                 /\ CanFail
                 /\ faults' = faults + 1
                 /\ failed' = failed \cup {<<"update", name>>}
                 /\ EndRun(1, "update", {})
                 /\ UNCHANGED <<remote, metaFile>>
    /\ UNCHANGED <<html, json, config, labyFile, remoteLaby, nextId, loggedIn,
                   prev, edited, runs, edits, pureVars>>

UpdateDone ==
    /\ pc = "update"
    /\ idx > Len(plan.updatedPages)
    /\ pc' = "link"
    /\ idx' = 1
    /\ UNCHANGED <<fileVars, siteVars, loggedIn, labyMeta, pageIds, pagesMeta,
                   plan, counts, exit, ghostVars, pureVars>>

\* ------------------------------------------------------------------
\* main(): link phase (upload.js:1343-1431)
\* ------------------------------------------------------------------
\* The name main logs for a target id.
TargetName(pm, target) ==
    CHOOSE n \in DOMAIN pageIdMap(pm) : pageIdMap(pm)[n] = target

\* One pass of the link loop: the target's boxes are all unchecked, the box
\* of every source is checked, the form is saved.
LinkOne ==
    /\ pc = "link"
    /\ LET targets == targetPages(pagesMeta, plan.newPages, plan.updatedPages)
       IN  /\ idx <= Len(targets)
           /\ LET target == targets[idx]
                  sources == connections(pagesMeta, plan.newPages,
                                         plan.updatedPages, target)
                  name == TargetName(pagesMeta, target)
                  boxes(ok) == {<<sources[i].fromPageId, sources[i].answerIndex>> :
                                   i \in ok}
                  store(ok) == IF target \in DOMAIN remote
                               THEN [remote EXCEPT ![target].pred = boxes(ok)]
                               ELSE remote
              IN  /\ log' = Append(log, LinkOp(name, target, sources))
                  /\ \/ \* every setParentConnection returns true
                        /\ remote' = store(1..Len(sources))
                        /\ counts' = [counts EXCEPT !.connected = @ + 1]
                        /\ idx' = idx + 1
                        /\ UNCHANGED <<pc, exit, labyMeta, pageIds, pagesMeta,
                                       plan, faults, failed>>
                     \/ \* setParentConnection returns false for some sources
                        /\ CanFail
                        /\ faults' = faults + 1
                        /\ \E bad \in SUBSET (1..Len(sources)) \ {{}} :
                              /\ remote' = store((1..Len(sources)) \ bad)
                              /\ counts' = [counts EXCEPT !.failures.connect =
                                                            @ + Cardinality(bad)]
                        /\ failed' = failed \cup {<<"link", name>>}
                        /\ idx' = idx + 1
                        /\ UNCHANGED <<pc, exit, labyMeta, pageIds, pagesMeta, plan>>
                     \/ \* a round trip of the pass throws (retries exhausted)
                        /\ CanFail
                        /\ faults' = faults + 1
                        /\ failed' = failed \cup {<<"link", name>>}
                        /\ EndRun(1, "link", {})
                        /\ UNCHANGED remote
    /\ UNCHANGED <<fileVars, remoteLaby, nextId, loggedIn, prev, edited, runs,
                   edits, pureVars>>

LinkDone ==
    /\ pc = "link"
    /\ idx > Len(targetPages(pagesMeta, plan.newPages, plan.updatedPages))
    /\ pc' = "summary"
    /\ UNCHANGED <<fileVars, siteVars, loggedIn, memVars, exit, ghostVars, pureVars>>

\* ------------------------------------------------------------------
\* main(): summary, logout, process end (upload.js:1433-1473)
\* ------------------------------------------------------------------
Finish ==
    /\ pc = "summary"
    /\ loggedIn' = FALSE
    /\ EndRun(0, "none", {})
    /\ UNCHANGED <<fileVars, siteVars, ghostVars, pureVars>>

\* The process is killed while main runs.
Kill ==
    /\ pc \notin {"idle"}
    /\ CanFail
    /\ faults' = faults + 1
    /\ EndRun(137, "killed", {})
    /\ UNCHANGED <<fileVars, siteVars, loggedIn, log, failed, prev, edited,
                   runs, edits, pureVars>>

\* ------------------------------------------------------------------
\* The author edits the content tree between runs
\* ------------------------------------------------------------------
Edit ==
    /\ pc = "idle"
    /\ edits < MaxEdits
    /\ edits' = edits + 1
    /\ edited' = TRUE
    /\ \/ \E n \in Names, v \in HtmlVals \cup {EmptyHtml, NoFile} :
             /\ html[n] # v
             /\ html' = [html EXCEPT ![n] = v]
             /\ UNCHANGED <<json, config, labyFile, metaFile>>
       \/ \E n \in Names, j \in JsonVals \cup {NoJson} :
             /\ json[n] # j
             /\ json' = [json EXCEPT ![n] = j]
             /\ UNCHANGED <<html, config, labyFile, metaFile>>
       \/ \E c \in ConfigVals :
             /\ config # c
             /\ config' = c
             /\ UNCHANGED <<html, json, labyFile, metaFile>>
       \/ \E n \in Names :
             /\ metaFile[n].exists
             /\ metaFile' = [metaFile EXCEPT ![n] = NoMetaFile]
             /\ UNCHANGED <<html, json, config, labyFile>>
       \/ \* labyrinth.meta is removed, to have the labyrinth made anew
          /\ labyFile.exists
          /\ labyFile' = NoLabyFile
          /\ UNCHANGED <<html, json, config, metaFile>>
    /\ UNCHANGED <<siteVars, pc, loggedIn, memVars, exit, log, failed,
                   prev, runs, faults, pureVars>>

\* ------------------------------------------------------------------
\* Specification of the runs of main
\* ------------------------------------------------------------------
Next ==
    \/ StartRun
    \/ Login
    \/ LabySync
    \/ Plan
    \/ DeleteOne
    \/ DeleteDone
    \/ CreateOne
    \/ CreateDone
    \/ UpdateOne
    \/ UpdateDone
    \/ LinkOne
    \/ LinkDone
    \/ Finish
    \/ Kill
    \/ Edit

Spec == Init /\ [][Next]_vars


\* ------------------------------------------------------------------
\* Specification of determinePageStates on its own
\* ------------------------------------------------------------------
\* The inputs: any three sets of names, any duplicate-free pageIds, and for
\* every name with a meta file a recorded state with or without an id.
ClsInputs ==
    {[htmlNames |-> NamesIn(H), jsonNames |-> NamesIn(J),
      metaNames |-> NamesIn(M), pageIds |-> ids, metas |-> ms] :
        H \in SUBSET Names, J \in SUBSET Names, M \in SUBSET Names,
        ids \in DistinctSeqs(1..MaxClsId),
        ms \in [Names -> [id : 0..MaxClsId, hash : {NoHash}, is_first : {FALSE}]]}

InitClassify ==
    /\ InitMain
    /\ json = [n \in Names |-> [exists |-> TRUE, answers |-> <<>>]]
    /\ cIn \in ClsInputs
    /\ \A n \in Names \ Range(cIn.metaNames) : cIn.metas[n] = EmptyMeta
    /\ cOut = NoClsOut
    /\ HashIdle
    /\ RetryIdle
    /\ ImageIdle

Classify ==
    /\ ~cOut.done
    /\ cOut' = [cOut EXCEPT
          !.done = TRUE,
          !.states = determinePageStates(cIn.htmlNames, cIn.jsonNames,
                         cIn.metaNames, cIn.pageIds, cIn.metas)]
    /\ UNCHANGED <<mainVars, cIn, hashVars, retryVars, imageVars>>

\* One pass of main's delete loop (upload.js:1064-1081) over the plan of the
\* classified input: allPagesToDelete[i] is passed to deletePage.
ClassifiedDelete ==
    /\ cOut.done
    /\ LET list == allPagesToDelete(cOut.states, cIn.pageIds)
       IN  /\ cOut.i <= Len(list)
           /\ cOut' = [cOut EXCEPT !.calls = Append(@, list[cOut.i]), !.i = @ + 1]
    /\ UNCHANGED <<mainVars, cIn, hashVars, retryVars, imageVars>>

NextClassify == Classify \/ ClassifiedDelete

SpecClassify == InitClassify /\ [][NextClassify]_vars


\* ------------------------------------------------------------------
\* Specification of computePageHash on its own
\* ------------------------------------------------------------------
\* The keys and values of the metadata objects drawn as inputs.
HashKeys == {"title", "hint"}
HashVals == {"x", "y"}

\* Every object over HashKeys, in every insertion order of its keys.
HashObjects ==
    {[i \in 1..Len(ks) |-> <<ks[i], v[ks[i]]>>] :
        ks \in DistinctSeqs(HashKeys), v \in [HashKeys -> HashVals]}

\* Checksums are numbered in the order Array.prototype.sort gives them.
ChecksumLists == UNION {[1..k -> 1..MaxChecksum] : k \in 0..MaxSums}

InitHash ==
    /\ InitMain
    /\ json = [n \in Names |-> [exists |-> TRUE, answers |-> <<>>]]
    /\ ClsIdle
    /\ hIn \in [html : HtmlVals, jsonA : HashObjects, jsonB : HashObjects,
                 sumsA : ChecksumLists, sumsB : ChecksumLists]
    /\ hOut = NoHashOut
    /\ RetryIdle
    /\ ImageIdle

Hash ==
    /\ ~hOut.done
    /\ hOut' = [done |-> TRUE,
                a |-> computePageHash(hIn.html, hIn.jsonA, hIn.sumsA),
                b |-> computePageHash(hIn.html, hIn.jsonB, hIn.sumsB)]
    /\ UNCHANGED <<mainVars, clsVars, hIn, retryVars, imageVars>>

NextHash == Hash

SpecHash == InitHash /\ [][NextHash]_vars

\* ------------------------------------------------------------------
\* withRetry (upload.js:128-183) on its own
\* ------------------------------------------------------------------
\* RETRY_CONFIG
maxRetries == 3
delayMs == 1000
\* RETRY_CONFIG.retryableErrors: each pattern is the lower-case text it
\* looks for, the flag i makes the match ignore case.
retryableErrors ==
    <<"timeout", "exceeded", "waiting failed", "econnreset", "econnrefused",
      "etimedout", "net::", "navigation failed", "protocol error",
      "target closed">>

\* An error message is the sequence of its parts.
\* pattern.test(message): some part of the message is the pattern's text.
test(pattern, message) ==
    \E i \in 1..Len(message) : toLowerCase(message[i]) = pattern

isRetryableError(error) ==
    \E i \in 1..Len(retryableErrors) : test(retryableErrors[i], error.message)

\* The catch block's condition when only the last attempt rethrows.
rethrowsOnLastAttempt(error, attempt, max) == attempt = max

\* The catch block's condition for throwing the error again:
\* !isRetryableError(error) || attempt === maxRetries
rethrows(error, attempt, max) == ~isRetryableError(error) \/ attempt = max

\* The messages of the errors fn throws; <<>> is an error without message.
ErrorMessages ==
    { <<>>, <<"Navigation", "Timeout", "of", "30000", "ms", "exceeded">>,
      <<"net::", "ERR_CONNECTION_RESET">>, <<"Node", "is", "detached">> }

\* What one invocation of fn does: it returns, or throws an error.
Outcomes == {<<"ok">>} \cup ErrorMessages

RetryInputs ==
    [outcomes : [1..MaxCalls -> Outcomes], maxRetries : 0..MaxCalls]

InitRetry ==
    /\ InitMain
    /\ json = [n \in Names |-> [exists |-> TRUE, answers |-> <<>>]]
    /\ ClsIdle
    /\ HashIdle
    /\ rIn \in RetryInputs
    /\ rSt = NoRetrySt
    /\ ImageIdle

\* One pass of the loop up to the return, the throw or the delay:
\* fn is invoked; its error is rethrown unless it is retryable and attempts
\* are left.
RetryAttempt ==
    /\ rSt.pc = "call"
    /\ rSt.attempt <= rIn.maxRetries
    /\ LET k == rSt.calls + 1
           out == rIn.outcomes[k]
           error == [message |-> out, at |-> k]
       IN  IF out = <<"ok">>
           THEN rSt' = [rSt EXCEPT !.pc = "returned", !.calls = k, !.result = k]
           ELSE IF rethrows(error, rSt.attempt, rIn.maxRetries)
           THEN rSt' = [rSt EXCEPT !.pc = "thrown", !.calls = k,
                                   !.lastError = error, !.thrown = error]
           ELSE rSt' = [rSt EXCEPT !.pc = "wait", !.calls = k,
                                   !.lastError = error]
    /\ UNCHANGED <<mainVars, clsVars, hashVars, rIn, imageVars>>

\* The delay when every wait lasts delayMs.
delayFixed(attempt) == delayMs

\* const delay = RETRY_CONFIG.delayMs * attempt
delay(attempt) == delayMs * attempt

\* The delay of delayMs * attempt has passed; the loop goes on.
RetryWait ==
    /\ rSt.pc = "wait"
    /\ rSt' = [rSt EXCEPT !.pc = "call", !.attempt = @ + 1,
                          !.delays = Append(@, delay(rSt.attempt))]
    /\ UNCHANGED <<mainVars, clsVars, hashVars, rIn, imageVars>>

\* The loop ended without a return or a throw: throw lastError.
RetryExhausted ==
    /\ rSt.pc = "call"
    /\ rSt.attempt > rIn.maxRetries
    /\ rSt' = [rSt EXCEPT !.pc = "thrown", !.thrown = rSt.lastError]
    /\ UNCHANGED <<mainVars, clsVars, hashVars, rIn, imageVars>>

NextRetry == RetryAttempt \/ RetryWait \/ RetryExhausted

SpecRetry == InitRetry /\ [][NextRetry]_vars

\* withRetry is an async function on the event loop: a settled promise of
\* fn and an expired timer always resume it, so a step that can be taken is
\* taken.
SpecRetryFair == SpecRetry /\ WF_vars(NextRetry)

\* ------------------------------------------------------------------
\* The image handling of a run on its own (upload.js:572-631, 1120-1159)
\* ------------------------------------------------------------------
\* The image files of the content tree.  A file name is the sequence of its
\* parts; all files are in the directory of the pages.
ImagePaths == { <<"a", ".png">>, <<"b", "a", ".png">>, <<"c", ".png">> }

\* path.basename
basename(imagePath) == imagePath

\* s ends with b.
EndsWith(s, b) ==
    /\ Len(b) <= Len(s)
    /\ SubSeq(s, Len(s) - Len(b) + 1, Len(s)) = b

\* A reference in a page's html: the src as written, and the URL put in its
\* place (0 while the reference is the local one).
LocalRef(src) == [src |-> src, url |-> 0]

\* The html of a page that references the files of refs, in order.
HtmlOf(refs) == [k \in 1..Len(refs) |-> LocalRef(refs[k])]

\* findLocalImages: the files the html references, each once.
findLocalImages(pageHtml) == [k \in 1..Len(pageHtml) |-> pageHtml[k].src]

\* calculateChecksum: files have one checksum iff they have the same bytes.
calculateChecksum(imagePath) == iIn.bytes[imagePath]

\* One step of replaceLocalImages: every src that still is a local
\* reference and ends with the basename of localPath becomes url
\* (src=["']([^"']*basename)["']).
replaceOne(pageHtml, localPath, url) ==
    [k \in 1..Len(pageHtml) |->
        IF pageHtml[k].url = 0 /\ EndsWith(pageHtml[k].src, basename(localPath))
        THEN [pageHtml[k] EXCEPT !.url = url] ELSE pageHtml[k]]

\* replaceLocalImages: the entries of pathMap are applied in insertion order.
RECURSIVE replaceLocalImages(_, _)
replaceLocalImages(pageHtml, pathMap) ==
    IF pathMap = <<>> THEN pageHtml
    ELSE replaceLocalImages(
             replaceOne(pageHtml, Head(pathMap)[1], Head(pathMap)[2]),
             Tail(pathMap))

\* cache with checksum -> url added.
CachePut(cache, checksum, url) ==
    [c \in DOMAIN cache \cup {checksum} |-> IF c = checksum THEN url ELSE cache[c]]

\* updatedCache when the new entry is all that is kept.
cacheOfUploadOnly(cache, checksum, url) ==
    IF url # 0 THEN CachePut(NoImages, checksum, url) ELSE cache

\* uploadNewImages: updatedCache after uploadImage returned url (0: null).
cacheAfterUpload(cache, checksum, url) ==
    IF url # 0 THEN CachePut(cache, checksum, url) ELSE cache

\* The inputs: for every page up to MaxRefs references to distinct files,
\* and the bytes of every file.
ImageInputs ==
    [refs : [Names -> {r \in DistinctSeqs(ImagePaths) : Len(r) <= MaxRefs}],
     bytes : [ImagePaths -> 1..MaxChecksum]]

InitImages ==
    /\ InitMain
    /\ json = [n \in Names |-> [exists |-> TRUE, answers |-> <<>>]]
    /\ ClsIdle
    /\ HashIdle
    /\ RetryIdle
    /\ iIn \in ImageInputs
    /\ iSt = NoImageSt

\* The page of the current pass and the images found in its html.
ImagePage == NameOrder[iSt.i]
ImageList == findLocalImages(HtmlOf(iIn.refs[ImagePage]))

\* One pass of the loop of uploadNewImages: the file is taken from the cache
\* or uploadImage is called, which returns a URL, returns null, or throws.
ImageStep ==
    /\ iSt.pc = "page"
    /\ iSt.i <= Len(NameOrder)
    /\ iSt.j <= Len(ImageList)
    /\ LET imagePath == ImageList[iSt.j]
           checksum == calculateChecksum(imagePath)
           call(url) == [page |-> ImagePage, path |-> imagePath,
                         checksum |-> checksum, url |-> url]
       IN  IF checksum \in DOMAIN iSt.updatedCache
           THEN iSt' = [iSt EXCEPT
                    !.pathMap = Append(@, <<imagePath, iSt.updatedCache[checksum]>>),
                    !.j = @ + 1]
           ELSE \/ iSt' = [iSt EXCEPT
                       !.uploads = Append(@, call(iSt.nextUrl)),
                       !.updatedCache = cacheAfterUpload(@, checksum, iSt.nextUrl),
                       !.pathMap = Append(@, <<imagePath, iSt.nextUrl>>),
                       !.nextUrl = @ + 1,
                       !.j = @ + 1]
                \/ iSt' = [iSt EXCEPT
                       !.uploads = Append(@, call(0)),
                       !.updatedCache = cacheAfterUpload(@, checksum, 0),
                       !.j = @ + 1]
                \/ iSt' = [iSt EXCEPT
                       !.uploads = Append(@, call(0)),
                       !.pc = "aborted"]
    /\ UNCHANGED <<mainVars, clsVars, hashVars, retryVars, iIn>>

\* uploadNewImages returned: the cache is taken over and written to
\* labyrinth.meta when the page has images, the URLs are put into the html,
\* the page is submitted and its meta file is written with its hash.
ImagePageDone ==
    /\ iSt.pc = "page"
    /\ iSt.i <= Len(NameOrder)
    /\ iSt.j > Len(ImageList)
    /\ iSt' = [iSt EXCEPT
          !.imageCache = IF Len(ImageList) > 0 THEN iSt.updatedCache ELSE @,
          !.saved = IF Len(ImageList) > 0 THEN iSt.updatedCache ELSE @,
          !.updatedCache = IF Len(ImageList) > 0 THEN @ ELSE iSt.imageCache,
          !.content[ImagePage] =
              replaceLocalImages(HtmlOf(iIn.refs[ImagePage]), iSt.pathMap),
          !.submitted = @ \cup {ImagePage},
          !.recorded = @ \cup {ImagePage},
          !.pathMap = <<>>,
          !.i = @ + 1,
          !.j = 1]
    /\ UNCHANGED <<mainVars, clsVars, hashVars, retryVars, iIn>>

\* The loop over the pages has ended.
ImagesDone ==
    /\ iSt.pc = "page"
    /\ iSt.i > Len(NameOrder)
    /\ iSt' = [iSt EXCEPT !.pc = "done"]
    /\ UNCHANGED <<mainVars, clsVars, hashVars, retryVars, iIn>>

\* The next run: imageCache is read from labyrinth.meta (labyMeta.images ||
\* {}), the run's own variables start afresh.
ImageRunAgain ==
    /\ iSt.pc \in {"done", "aborted"}
    /\ iSt.run < MaxImageRuns
    /\ iSt' = [NoImageSt EXCEPT
          !.imageCache = iSt.saved,
          !.updatedCache = iSt.saved,
          !.saved = iSt.saved,
          !.nextUrl = iSt.nextUrl,
          !.run = iSt.run + 1]
    /\ UNCHANGED <<mainVars, clsVars, hashVars, retryVars, iIn>>

NextImages == ImageStep \/ ImagePageDone \/ ImagesDone \/ ImageRunAgain

SpecImages == InitImages /\ [][NextImages]_vars

\* ------------------------------------------------------------------
\* Claims about determinePageStates
\* ------------------------------------------------------------------
\* The names of a list of states items.
ItemNames(items) == [i \in 1..Len(items) |-> items[i].name]

\* How many times name n is listed over the six page categories.
TimesListed(st, n) ==
    Count(st.normal, n) + Count(st.new, n)
    + Count(ItemNames(st.json_missing), n) + Count(ItemNames(st.html_missing), n)
    + Count(ItemNames(st.pageIds_missing), n)
    + Count(ItemNames(st.residual_meta), n)

\* The names whose recorded state holds id.
Holders(in, id) == {n \in Range(in.metaNames) : in.metas[n].id = id}

\* C3: every page name that occurs in htmlNames, jsonNames or metaNames is
\* listed in exactly one of normal, new, json_missing, html_missing,
\* pageIds_missing, residual_meta, a recorded state without id included.
C3_EveryNameInExactlyOneCategory ==
    cOut.done =>
        \A n \in Range(cIn.htmlNames) \cup Range(cIn.jsonNames)
                 \cup Range(cIn.metaNames) :
            TimesListed(cOut.states, n) = 1

\* C4 as claimed: every id of pageIds is either listed once as orphan or is
\* the recorded id of exactly one recorded state, never both, never neither.
C4_OrphanOrExactlyOneHolder ==
    cOut.done =>
        \A id \in Range(cIn.pageIds) :
            \/ /\ Count(cOut.states.orphan, id) = 1
               /\ Holders(cIn, id) = {}
            \/ /\ Count(cOut.states.orphan, id) = 0
               /\ Cardinality(Holders(cIn, id)) = 1

\* C4 amended: every id of pageIds is either listed once as orphan or is the
\* recorded id of at least one recorded state, never both, never neither.
C4_OrphanOrSomeHolder ==
    cOut.done =>
        \A id \in Range(cIn.pageIds) :
            \/ /\ Count(cOut.states.orphan, id) = 1
               /\ Holders(cIn, id) = {}
            \/ /\ Count(cOut.states.orphan, id) = 0
               /\ Holders(cIn, id) # {}

\* C4 witness: classified pageIds with an orphan id and an id that two
\* recorded states hold.
C4_Witness ==
    /\ cOut.done
    /\ \E id \in Range(cIn.pageIds) : Count(cOut.states.orphan, id) = 1
    /\ \E id \in Range(cIn.pageIds) : Cardinality(Holders(cIn, id)) = 2


\* ------------------------------------------------------------------
\* Claims about the runs of main
\* ------------------------------------------------------------------
\* The positions of the log that hold operation op on page name / id.
CallsByName(op, name) == {i \in 1..Len(log) : log[i].op = op /\ log[i].name = name}
CallsById(op, id) == {i \in 1..Len(log) : log[i].op = op /\ log[i].id = id}

\* Every <<source id, answer position>> over all loaded pages with an id
\* whose answer's next resolves to the page with id target.
AllSources(pm, target) ==
    LET map == pageIdMap(pm)
        slots == {sl \in Range(AnswerSlots(NamesIn(DOMAIN map))) :
                     /\ json[sl[1]].answers[sl[2]] \in DOMAIN map
                     /\ map[json[sl[1]].answers[sl[2]]] = target}
    IN  {<<map[sl[1]], sl[2]>> : sl \in slots}

\* C1: a run that ends on a page validation error has issued no remote
\* mutation, and its error list names every unresolved <<page, answer>>.
C1_ValidationAbortWithoutMutation ==
    (pc = "idle" /\ exit.cause = "validation" /\ ~edited) =>
        /\ log = <<>>
        /\ exit.errors = validateAllPages(Loaded)
        /\ exit.errors # {}

\* C2: a run that starts right after a run that ended with exit code 0 and no
\* failed operation, with no edit in between, issues no remote operation and
\* leaves labyrinth.meta and every page meta file as it found them.
C2_SecondRunIsNoOp ==
    (prev.ok /\ ~prev.edited /\ ~edited) =>
        /\ log = <<>>
        /\ labyFile = prev.laby
        /\ metaFile = prev.meta

\* C2 witness: such a second run has ended normally, after a first run that
\* created pages and stored a predecessor on the site.
C2_Witness ==
    /\ prev.ok /\ ~prev.edited /\ ~edited
    /\ pc = "idle" /\ exit.code = 0
    /\ \E n \in Names : prev.meta[n].exists
    /\ \E id \in DOMAIN prev.site : prev.site[id].pred # {}

C6_RemovedAnswerClearsPredecessor ==
    LET a == metaFile["A"].id
        b == metaFile["B"].id
    IN  ( /\ pc = "summary" /\ failed = {}
          /\ prev.ok /\ prev.edited
          /\ Loaded = Names
          /\ metaFile["A"].exists /\ metaFile["B"].exists
          /\ prev.meta["A"].id = a /\ prev.meta["B"].id = b
          /\ b \in DOMAIN prev.site /\ b \in DOMAIN remote
          /\ prev.site[b].pred = {<<a, 1>>}
          /\ json["A"].answers = <<>>
          /\ "B" \notin Range(json["B"].answers) )
        => remote[b].pred = {}

\* C7: when a run has ended normally, every page that was classified
\* pageIds_missing had exactly one deletePage for its old id, then exactly
\* one create submission, and its meta file holds a new id of the site.
C7_RecreateOnMissingId ==
    pc = "summary" =>
        \A k \in 1..Len(plan.states.pageIds_missing) :
            LET it == plan.states.pageIds_missing[k]
                dels == CallsById("deletePage", it.id)
                crs == CallsByName("createPage", it.name)
            IN  /\ Cardinality(dels) = 1
                /\ Cardinality(crs) = 1
                /\ \A d \in dels, c \in crs : d < c
                /\ metaFile[it.name].exists
                /\ metaFile[it.name].id # it.id
                /\ metaFile[it.name].id \in DOMAIN remote

\* C8: once the delete phase is over, every orphan id had exactly one
\* deletePage call and is not in the pageIds of labyrinth.meta, whatever
\* deletePage returned.
C8_OrphanDeletedOnce ==
    pc \in {"create", "update", "link", "summary"} =>
        \A id \in Range(plan.states.orphan) :
            /\ Cardinality(CallsById("deletePage", id)) = 1
            /\ ~Contains(labyFile.pageIds, id)

\* C8 witness: a run with an orphan id has reached its summary and no
\* deletePage of the run found its page on the site.
C8_Witness ==
    /\ pc = "summary"
    /\ plan.states.orphan # <<>>
    /\ counts.deleted = 0

\* C9: no run ends because the operation of one page or one target failed.
C9_EntityFailureNeverAborts ==
    exit.cause \notin {"delete", "create", "update", "link"}

\* The current run issued the operation that failed for entity f.
AttemptedAgain(f) ==
    \/ f[1] = "create" /\ CallsByName("createPage", f[2]) # {}
    \/ f[1] = "update" /\ CallsByName("updatePage", f[2]) # {}
    \/ f[1] = "link" /\ CallsByName("link", f[2]) # {}
    \/ f[1] = "delete" /\ \E i \in 1..Len(log) :
          log[i].op = "deletePage" /\ ToString(log[i].id) = f[2]

\* C10: when a run has ended normally with no edit since the run before it,
\* it issued again the operation of every entity that failed in that run.
C10_FailedEntityRetriedNextRun ==
    (pc = "summary" /\ ~prev.edited) =>
        \A f \in prev.failed : AttemptedAgain(f)

\* The update submissions of the current run whose form was saved.
SavedUpdates ==
    {i \in 1..Len(log) : /\ log[i].op = "updatePage"
                         /\ <<"update", log[i].name>> \notin failed}

\* C11: while a run is under way, a page whose update submission was not
\* saved keeps the meta file the run found, and counts.updated counts only
\* the saved update submissions.
C11_UnsavedUpdateLeavesRecordedState ==
    pc # "idle" =>
        /\ \A n \in Names :
              <<"update", n>> \in failed => metaFile[n] = prev.meta[n]
        /\ counts.updated = Cardinality(SavedUpdates)

\* The failures main counts in counts.failures: a create submission that
\* gave no id and a target with a failed setParentConnection.
CountedFailures == {f \in failed : f[1] \in {"create", "link"}}

\* C12: the exit code of an ended run is 0 exactly when the run had no
\* validation error, no error that ended it, and no counted failure of a
\* page or a link.
C12_ExitCodeZeroIffNoFailure ==
    (pc = "idle" /\ exit.code # -1) =>
        (exit.code = 0 <=> (exit.cause = "none" /\ CountedFailures = {}))

\* The pages the current run created whose id is in their meta file but not
\* in the pageIds of labyrinth.meta.
CreatedButUnlisted ==
    {n \in Names : /\ CallsByName("createPage", n) # {}
                   /\ metaFile[n].exists
                   /\ metaFile[n].id # NoId
                   /\ ~Contains(labyFile.pageIds, metaFile[n].id)}

\* C13: after a run was killed, the pageIds of labyrinth.meta lack the id of
\* at most one page whose create the run completed.
C13_KillLosesAtMostOneCreate ==
    (pc = "idle" /\ exit.cause = "killed") =>
        Cardinality(CreatedButUnlisted) <= 1

\* C14: after a run that ended normally, every id held by a page meta file
\* is in the pageIds of labyrinth.meta.
C14_RecordedIdsAreListed ==
    (pc = "idle" /\ exit.code = 0) =>
        \A n \in Names :
            (metaFile[n].exists /\ metaFile[n].id # NoId) =>
                Contains(labyFile.pageIds, metaFile[n].id)

\* The operations of the log that are page operations.
PageOps == {i \in 1..Len(log) :
               log[i].op \in {"deletePage", "createPage", "updatePage", "link"}}

\* C18: right after the labyrinth step, exactly one of three holds: no id was
\* recorded, one createLabyrinth was issued and labyrinth.meta holds the new
\* id, the current hash, no image and no page id; an id was recorded with
\* another hash, one updateLabyrinth was issued and only the hash of
\* labyrinth.meta changed; otherwise nothing was issued and labyrinth.meta is
\* as it was.
C18_LabyrinthStepOutcomes ==
    pc = "plan" =>
        LET currentHash == computeLabyrinthHash(config)
        IN  IF prev.laby.id = NoId
            THEN /\ Len(log) = 1
                 /\ log[1].op = "createLabyrinth"
                 /\ labyFile.id # NoId
                 /\ labyFile.id \in DOMAIN remoteLaby
                 /\ labyFile = [exists |-> TRUE, id |-> log[1].id,
                                hash |-> currentHash, images |-> NoImages,
                                pageIds |-> <<>>]
            ELSE IF prev.laby.hash # currentHash
            THEN /\ log = <<Op("updateLabyrinth", "", prev.laby.id)>>
                 /\ labyFile = [prev.laby EXCEPT !.hash = currentHash]
            ELSE /\ log = <<>>
                 /\ labyFile = prev.laby

\* C18 witness: the labyrinth step has issued updateLabyrinth for a
\* labyrinth.meta that lists page ids.
C18_Witness ==
    /\ pc = "plan"
    /\ Len(log) = 1 /\ log[1].op = "updateLabyrinth"
    /\ labyFile.pageIds # <<>>

\* C19: a run that ended because createLabyrinth or updateLabyrinth failed
\* issued no page operation and left the id and the hash of labyrinth.meta
\* as it found them (looked at before the author edits anything again).
C19_LabyrinthFailureAborts ==
    (pc = "idle" /\ exit.cause = "labyrinth" /\ ~edited) =>
        /\ PageOps = {}
        /\ labyFile.id = prev.laby.id
        /\ labyFile.hash = prev.laby.hash

\* C19 witness: a run ended on a failed updateLabyrinth while a page has a
\* meta file.
C19_Witness ==
    /\ pc = "idle" /\ exit.cause = "labyrinth" /\ ~edited
    /\ Len(log) = 1 /\ log[1].op = "updateLabyrinth"
    /\ \E n \in Names : metaFile[n].exists

\* Two objects hold the same keys with the same values.
SameEntries(a, b) == Range(a) = Range(b)

\* Two lists hold the same elements the same number of times.
IsPermutation(a, b) == \A x \in Range(a) \cup Range(b) : Count(a, x) = Count(b, x)

\* C16: computePageHash gives one fingerprint for two metadata objects with
\* the same keys and values in any key order, the content and the checksums
\* being equal.
C16_HashIgnoresKeyOrder ==
    (hOut.done /\ SameEntries(hIn.jsonA, hIn.jsonB) /\ hIn.sumsA = hIn.sumsB) =>
        hOut.a = hOut.b

\* C17: computePageHash gives one fingerprint for every permutation of one
\* list of checksums, the content and the metadata being equal.
C17_HashIgnoresChecksumOrder ==
    (hOut.done /\ hIn.jsonA = hIn.jsonB /\ IsPermutation(hIn.sumsA, hIn.sumsB)) =>
        hOut.a = hOut.b

\* C17 witness: two different orders of one list of checksums were hashed.
C17_Witness ==
    /\ hOut.done
    /\ hIn.jsonA = hIn.jsonB
    /\ IsPermutation(hIn.sumsA, hIn.sumsB)
    /\ hIn.sumsA # hIn.sumsB

\* The error the k-th invocation of fn threw.
ErrorOf(k) == [message |-> rIn.outcomes[k], at |-> k]

\* C20: withRetry invoked fn again only after a retryable error; after an
\* error that is not retryable it has made no further invocation, waited no
\* further delay, and has thrown that very error.
C20_OnlyTransientErrorsRetried ==
    /\ \A k \in 2..rSt.calls :
          /\ rIn.outcomes[k - 1] # <<"ok">>
          /\ isRetryableError(ErrorOf(k - 1))
    /\ \A k \in 1..rSt.calls :
          (rIn.outcomes[k] # <<"ok">> /\ ~isRetryableError(ErrorOf(k))) =>
              /\ rSt.calls = k
              /\ rSt.pc = "thrown"
              /\ rSt.thrown = ErrorOf(k)
              /\ Len(rSt.delays) = k - 1

\* C20 witness: the second invocation, made after a retryable error, threw
\* an error that is not retryable, with attempts left.
C20_Witness ==
    /\ rSt.calls = 2
    /\ rSt.pc = "thrown"
    /\ rIn.maxRetries = maxRetries
    /\ isRetryableError(ErrorOf(1))
    /\ ~isRetryableError(ErrorOf(2))

\* The uploadImage calls of the run for files with checksum c.
UploadsOf(c) == {k \in 1..Len(iSt.uploads) : iSt.uploads[k].checksum = c}

\* The URL the submitted html of page n carries for its reference to src
\* (0: the local reference is still there).
CarriedUrl(n, src) ==
    LET k == CHOOSE x \in 1..Len(iSt.content[n]) : iSt.content[n][x].src = src
    IN  iSt.content[n][k].url

\* C15: when a run that began with an empty cache has ended, for two pages
\* that reference files of different names with the same bytes, exactly one
\* uploadImage call was made for those bytes and the html submitted for both
\* pages carries the URL of that upload in place of the reference.
C15_SameBytesUploadedOnce ==
    (iSt.pc = "done" /\ iSt.run = 1) =>
        \A n1, n2 \in Names : \A p1 \in Range(iIn.refs[n1]), p2 \in Range(iIn.refs[n2]) :
            (n1 # n2 /\ p1 # p2 /\ iIn.bytes[p1] = iIn.bytes[p2]) =>
                /\ Cardinality(UploadsOf(iIn.bytes[p1])) = 1
                /\ \A k \in UploadsOf(iIn.bytes[p1]) :
                      /\ iSt.uploads[k].url # 0
                      /\ CarriedUrl(n1, p1) = iSt.uploads[k].url
                      /\ CarriedUrl(n2, p2) = iSt.uploads[k].url

\* The first invocation of fn that returns, 0 when none of the first max does.
FirstOk(max) ==
    LET ok == {k \in 1..max : k <= MaxCalls /\ rIn.outcomes[k] = <<"ok">>}
    IN  IF ok = {} THEN 0 ELSE CHOOSE k \in ok : \A j \in ok : k <= j

\* The call of withRetry so far: fn was invoked at most maxRetries times; a
\* returned call gives the result of the first invocation that succeeded;
\* the k-th delay waited lasts k * delayMs and follows the k-th failed
\* invocation with k < maxRetries; an error thrown after the maxRetries-th
\* invocation is the error of that invocation, with no delay after it.
C21_Bounded ==
    /\ rSt.calls <= rIn.maxRetries
    /\ rSt.pc = "returned" =>
          /\ rSt.result = FirstOk(rIn.maxRetries)
          /\ rSt.result = rSt.calls
    /\ \A k \in 1..Len(rSt.delays) :
          /\ rSt.delays[k] = k * delayMs
          /\ k < rIn.maxRetries
          /\ k < rSt.calls \/ (k = rSt.calls /\ rSt.pc = "call")
          /\ isRetryableError(ErrorOf(k))
    /\ rSt.pc \in {"returned", "thrown"} /\ rSt.calls > 0 =>
          Len(rSt.delays) = rSt.calls - 1
    /\ (rSt.pc = "thrown" /\ rSt.calls = rIn.maxRetries /\ rSt.calls > 0) =>
          rSt.thrown = ErrorOf(rIn.maxRetries)

\* C21: withRetry invokes fn at most maxRetries times and returns the result
\* of the first successful invocation; after the k-th failed retryable
\* attempt, k < maxRetries, it waits k * delayMs; after the maxRetries-th
\* failed attempt it throws that error without waiting; every call of
\* withRetry ends with a return or a throw.
C21_RetryTerminates ==
    /\ []C21_Bounded
    /\ <>(rSt.pc \in {"returned", "thrown"})

\* C21 witness: with the default maxRetries, three retryable failures were
\* followed by the throw of the third, after delays of delayMs and 2 * delayMs.
C21_Witness ==
    /\ rIn.maxRetries = maxRetries
    /\ rSt.pc = "thrown"
    /\ rSt.calls = maxRetries
    /\ rSt.delays = <<delayMs, 2 * delayMs>>
    /\ rSt.thrown = ErrorOf(maxRetries)
    /\ isRetryableError(ErrorOf(maxRetries))

\* The names with exactly one of the html file and the json file.
Incomplete == {n \in Names : (html[n] # NoFile) # json[n].exists}

\* C22: no run issues a page create or a page update for a name that has an
\* html file but no json file, or a json file but no html file, and no run
\* puts such a name on its list of pages to create or to update.
C22_IncompleteNeverSubmitted ==
    ~edited =>
        /\ \A i \in 1..Len(log) :
              log[i].op \in {"createPage", "updatePage"} => log[i].name \notin Incomplete
        /\ (Range(plan.newPages) \cup Range(plan.updatedPages)) \cap Incomplete = {}

\* C22 witness: a run has reached its summary after a page create or update
\* while another name has only one of the two files and a recorded state.
C22_Witness ==
    /\ pc = "summary"
    /\ \E i \in 1..Len(log) : log[i].op \in {"createPage", "updatePage"}
    /\ \E n \in Incomplete : prev.meta[n].exists

\* C23: a run whose config names a first page that is not a loaded page
\* (html and json both present) issues no page create, update, delete or
\* link operation, never gets past the planning step, and ends with an exit
\* code other than 0.
C23_UnresolvedFirstPageAborts ==
    (runs > 0 /\ ~edited /\ firstPage(config) # "" /\ firstPage(config) \notin Loaded) =>
        /\ PageOps = {}
        /\ pc \in {"idle", "login", "laby", "plan"}
        /\ pc = "idle" => exit.code \notin {-1, 0}

\* C23 witness: a run of a tree with recorded pages ended on the first_page
\* check, after the labyrinth step had sent the changed config.
C23_Witness ==
    /\ pc = "idle" /\ exit.cause = "first_page" /\ exit.code = 1
    /\ ~edited
    /\ firstPage(config) = Ghost
    /\ \E i \in 1..Len(log) : log[i].op = "updateLabyrinth"
    /\ \E n \in Names : metaFile[n].exists

\* The config breaks a constraint of the labyrinth: no title or one of more
\* than titleMaxLength characters, more than tagsMaxLength tags, a tag that
\* is neither a name nor an id of TAG_MAP, an image whose extension is not
\* allowed.
BreaksLabyrinthConstraint(c) ==
    \/ trim(c.title) = <<>>
    \/ Len(c.title) > titleMaxLength
    \/ Len(c.tags) > tagsMaxLength
    \/ \E i \in 1..Len(c.tags) :
          \/ c.tags[i].type = "string" /\ c.tags[i].name \notin DOMAIN TAG_MAP
          \/ c.tags[i].type = "number" /\ c.tags[i].id \notin 1..Len(TagSymbols)
    \/ c.image # <<>> /\ toLowerCase(c.image[Len(c.image)]) \notin allowedExts

\* C24: a run whose config breaks a constraint of the labyrinth ends with
\* code 1 before the login and before any other remote call.
C24_InvalidConfigAbortsBeforeLogin ==
    (runs > 0 /\ ~edited /\ BreaksLabyrinthConstraint(config)) =>
        /\ pc = "idle"
        /\ exit.code = 1 /\ exit.cause = "config"
        /\ log = <<>>
        /\ ~loggedIn

\* The setParentConnection call src, made on the page with id target, is
\* for an answer of a loaded page: src holds that page's id and the position
\* of the answer in its answers list, counted from 1.
IsEdgeCall(src, target) ==
    \E n \in Loaded :
        /\ pagesMeta[n].id # NoId
        /\ pagesMeta[n].id = src.fromPageId
        /\ src.answerIndex \in 1..Len(json[n].answers)
        /\ json[n].answers[src.answerIndex] \in DOMAIN pageIdMap(pagesMeta)
        /\ pageIdMap(pagesMeta)[json[n].answers[src.answerIndex]] = target

\* C25: every setParentConnection call of the link phase holds the id of the
\* source page and the position, counted from 1, of an answer of that page
\* that leads to the target.  When a run that created both A and B has ended
\* without a failed operation and the first answer of A leads to B, the
\* predecessors stored for B are the <<id, position>> pairs of all answers
\* that lead to B, <<id of A, 1>> among them, and exactly {<<id of A, 1>>}
\* when no other answer leads to B.
C25_LinkUsesSourceIdAndPosition ==
    pc \in {"link", "summary"} =>
        /\ \A i \in 1..Len(log) : \A k \in 1..Len(log[i].sources) :
              IsEdgeCall(log[i].sources[k], log[i].id)
        /\ ( /\ pc = "summary" /\ failed = {}
             /\ CallsByName("createPage", "A") # {}
             /\ CallsByName("createPage", "B") # {}
             /\ Len(json["A"].answers) >= 1
             /\ json["A"].answers[1] = "B" ) =>
               LET a == metaFile["A"].id
                   b == metaFile["B"].id
               IN  /\ b \in DOMAIN remote
                   /\ <<a, 1>> \in remote[b].pred
                   /\ remote[b].pred = AllSources(pagesMeta, b)
                   /\ (Len(json["A"].answers) = 1 /\ "B" \notin Range(json["B"].answers))
                         => remote[b].pred = {<<a, 1>>}

\* C25 witness: a run without failure created A and B, the only answer that
\* leads to B is the first answer of A, and B stores a predecessor.
C25_Witness ==
    /\ pc = "summary" /\ failed = {}
    /\ CallsByName("createPage", "A") # {}
    /\ CallsByName("createPage", "B") # {}
    /\ json["A"].answers = <<"B">>
    /\ json["B"].answers = <<>>
    /\ \E i \in 1..Len(log) : log[i].op = "link" /\ Len(log[i].sources) = 1
    /\ metaFile["B"].id \in DOMAIN remote
    /\ remote[metaFile["B"].id].pred # {}

\* The phase of a remote operation of the log: 1 labyrinth step, 2 deletion
\* of the old id of a pageIds_missing page, 3 any other deletion, 4 create,
\* 5 update, 6 link.
PhaseOf(e) ==
    CASE e.op \in {"createLabyrinth", "updateLabyrinth"} -> 1
      [] e.op = "deletePage" ->
            IF Contains(pagesToDeleteBeforeRecreate(plan.states), e.id) THEN 2 ELSE 3
      [] e.op = "createPage" -> 4
      [] e.op = "updatePage" -> 5
      [] e.op = "link" -> 6

\* C26: the remote operations of a run are issued in the order labyrinth
\* step, deletions of the old ids of pageIds_missing pages, other deletions,
\* creates, updates, links: no operation follows an operation of a later
\* phase.
C26_OperationsInPhaseOrder ==
    pc # "idle" =>
        \A i, j \in 1..Len(log) : i < j => PhaseOf(log[i]) <= PhaseOf(log[j])

\* The normal page n has the hash in its recorded state that main computes
\* for its files.
Unchanged(n) == prev.meta[n].hash = PageHash(n)

\* C27: a normal page whose computed hash equals the recorded hash never
\* gets an update submission, no normal page gets more than one, and when
\* the update phase of the run is over, a normal page has got exactly one
\* update submission if its computed hash differs from the recorded hash.
C27_NormalUpdatedIffHashDiffers ==
    pc # "idle" =>
        \A n \in Range(plan.states.normal) :
            /\ Unchanged(n) => CallsByName("updatePage", n) = {}
            /\ Cardinality(CallsByName("updatePage", n)) <= 1
            /\ pc \in {"link", "summary"} =>
                  (Cardinality(CallsByName("updatePage", n)) = 1 <=> ~Unchanged(n))

\* C27 witness: a run is past its update phase with a normal page that got
\* its one update submission and a normal page that got none.
C27_Witness ==
    /\ pc = "summary"
    /\ \E n, m \in Range(plan.states.normal) :
          /\ ~Unchanged(n) /\ Cardinality(CallsByName("updatePage", n)) = 1
          /\ Unchanged(m) /\ CallsByName("updatePage", m) = {}

\* C28: after an update submission of a page was saved, the answer rows the
\* site stores for the page are the answers of the page's json file, also
\* when the json file has no answer and the stored page had some.
C28_SavedUpdateReplacesAnswers ==
    pc # "idle" =>
        \A n \in Names :
            ( /\ CallsByName("updatePage", n) # {}
              /\ <<"update", n>> \notin failed
              /\ pagesMeta[n].id \in DOMAIN remote ) =>
                remote[pagesMeta[n].id].answers = json[n].answers

\* Every entry of cache a is an entry of cache b, with the same URL.
CacheKept(a, b) == \A c \in DOMAIN a : c \in DOMAIN b /\ b[c] = a[c]

\* C29: no step of the image handling, within a run or from one run to the
\* next, removes an entry of the image cache or gives its checksum another
\* URL, in main's imageCache and in the images of labyrinth.meta.
C29_CacheAppendOnly ==
    [][ /\ CacheKept(iSt.imageCache, iSt'.imageCache)
        /\ CacheKept(iSt.saved, iSt'.saved) ]_vars

\* C29 witness: a later run has ended after an upload of its own, with two
\* entries in the images of labyrinth.meta.
C29_Witness ==
    /\ iSt.run > 1
    /\ iSt.pc = "done"
    /\ \E k \in 1..Len(iSt.uploads) : iSt.uploads[k].url # 0
    /\ Cardinality(DOMAIN iSt.saved) = 2
    /\ iSt.imageCache = iSt.saved

\* C30: when a run has reached its end, a pageIds_missing page whose old id
\* was sent to deletePage and whose create submission failed has no meta
\* file that holds the old id.
C30_PreDeletedStateCleared ==
    pc = "summary" =>
        \A k \in 1..Len(plan.states.pageIds_missing) :
            LET it == plan.states.pageIds_missing[k]
            IN  ( /\ CallsById("deletePage", it.id) # {}
                  /\ <<"create", it.name>> \in failed ) =>
                    ~(metaFile[it.name].exists /\ metaFile[it.name].id = it.id)

\* The json_missing and html_missing items of the run's classification.
MissingItems == plan.states.json_missing \o plan.states.html_missing

\* C31: once the delete phase of a run is over, every name classified
\* json_missing or html_missing that had a meta file had a deletePage call
\* for the id of that meta file, has no meta file any more, and got no page
\* create and no page update in the run.
C31_MissingWithStateDeletedAndRemoved ==
    pc \in {"create", "update", "link", "summary"} =>
        \A k \in 1..Len(MissingItems) :
            MissingItems[k].hasMeta =>
                /\ CallsById("deletePage", MissingItems[k].metaId) # {}
                /\ ~metaFile[MissingItems[k].name].exists
                /\ CallsByName("createPage", MissingItems[k].name) = {}
                /\ CallsByName("updatePage", MissingItems[k].name) = {}

\* The recorded ids of the names the classifier listed as normal.
NormalIds == {cIn.metas[n].id : n \in Range(cOut.states.normal)}

\* C32: in the delete loop of a run, no id passed to deletePage is the
\* recorded id of a page classified normal, also when the meta file of a
\* residual, json_missing or html_missing name records the same id, and no
\* id is passed to deletePage more than once.
C32_NormalIdNeverDeletedNoIdTwice ==
    cOut.done =>
        /\ \A k \in 1..Len(cOut.calls) : cOut.calls[k] \notin NormalIds
        /\ \A id \in Range(cOut.calls) : Count(cOut.calls, id) = 1

\* C33: no run ends on the TypeError of a page record that is not there,
\* and when a run is past its plan every name classified normal, new or
\* pageIds_missing is a loaded page, a name with an empty html file
\* included.
C33_ClassifiedPagesAreLoaded ==
    /\ exit.cause # "TypeError"
    /\ pc \in {"delete", "create", "update", "link", "summary"} =>
          Range(plan.states.normal) \cup Range(plan.newPages) \subseteq Loaded

\* The pages the site stores that it did not store when the run began.
CreatedInRun == DOMAIN remote \ DOMAIN prev.site

\* C34: when a run has reached its end, every page that a create submission
\* of the run put on the site has its id in the pageIds of labyrinth.meta
\* and in the meta file of a page, also when a create submission of the run
\* returned no id.
C34_CreatedPagesAreTracked ==
    pc = "summary" =>
        \A id \in CreatedInRun :
            /\ Contains(labyFile.pageIds, id)
            /\ \E n \in Names : metaFile[n].exists /\ metaFile[n].id = id

\* C35: when a run has reached its end without a failed operation, the
\* is_first flag in the meta file of every loaded page is TRUE exactly when
\* the page is the first page of the config, also when the config's first
\* page is all the author changed since the run before.
C35_RecordedFirstFlagMatchesConfig ==
    (pc = "summary" /\ failed = {}) =>
        \A n \in Loaded :
            metaFile[n].exists =>
                (metaFile[n].is_first <=> n = firstPage(config))

\* The uploadImage calls of the run for page n that gave no URL.
FailedUploads(n) ==
    {k \in 1..Len(iSt.uploads) : iSt.uploads[k].page = n /\ iSt.uploads[k].url = 0}

\* C36: a page with an uploadImage call that gave no URL does not get its
\* meta file written with its hash in that run, and no page has its meta
\* file written while the html submitted for it still holds a local image
\* reference.
C36_FailedUploadLeavesPageUnsynced ==
    \A n \in iSt.recorded :
        /\ FailedUploads(n) = {}
        /\ \A k \in 1..Len(iSt.content[n]) : iSt.content[n][k].url # 0

\* The run began without labyrinth.meta.
BeganWithoutLabyMeta == runs > 0 /\ ~prev.laby.exists

\* C37: in a run that began without labyrinth.meta, no page meta file is
\* left when the classification starts; the classification lists no normal,
\* no pageIds_missing and no residual_meta entry and lists as new exactly
\* the names with an html and a json file; the run issues no deletePage.
C37_NewLabyrinthStartsFromNoRecordedState ==
    BeganWithoutLabyMeta =>
        /\ CallsByName("deletePage", "") = {}
        /\ pc = "plan" => \A n \in Names : ~metaFile[n].exists
        /\ pc \in {"delete", "create", "update", "link", "summary"} =>
              /\ plan.states.normal = <<>>
              /\ plan.states.pageIds_missing = <<>>
              /\ plan.states.residual_meta = <<>>
              /\ plan.allPagesToDelete = <<>>
              /\ Range(plan.states.new) =
                    {n \in Names : html[n] # NoFile /\ json[n].exists}

\* C37 witness: a run that began without labyrinth.meta but with the meta
\* file of a page that holds an id has created that page anew and reached
\* its end.
C37_Witness ==
    /\ BeganWithoutLabyMeta
    /\ pc = "summary"
    /\ \E n \in Names :
          /\ prev.meta[n].exists /\ prev.meta[n].id # NoId
          /\ CallsByName("createPage", n) # {}
          /\ metaFile[n].exists /\ metaFile[n].id # prev.meta[n].id

\* C38: when the process of a run has ended other than by being killed,
\* after a normal completion, a page validation error, an unresolved first
\* page or a thrown error, no browser session of the run is left without
\* logout having been called.
C38_LogoutBeforeProcessEnds ==
    (pc = "idle" /\ exit.cause # "killed") => ~loggedIn

\* C39: in the html submitted for a page, every reference that was replaced
\* carries the URL uploaded for the bytes of the very file the reference
\* names, also when the name of one referenced file ends with the name of
\* another.
C39_ReferenceGetsUrlOfItsOwnFile ==
    \A n \in iSt.submitted : \A k \in 1..Len(iSt.content[n]) :
        LET ref == iSt.content[n][k]
        IN  ref.url # 0 =>
                /\ iIn.bytes[ref.src] \in DOMAIN iSt.imageCache
                /\ iSt.imageCache[iIn.bytes[ref.src]] = ref.url

====
